---- MODULE Spec2Model ----
(***************************************************************************)
(* Model of the gtfs-structure loader (src/src/lib.rs): the two load       *)
(* pipelines Gtfs::new and Gtfs::from_reader, the stop-visit resolver      *)
(* read_stop_times, the service day calculator trip_days, the field        *)
(* decoders (RouteType, Transfers, parse_time) and the accessors get_*.    *)
(*                                                                         *)
(* A csv file is the sequence of its decoded rows; a row is the            *)
(* Result<record, Error> the csv deserializer yields for it: [ok, v].      *)
(* A HashMap is a function whose DOMAIN is its key set.  A NaiveDate is    *)
(* its day number, day 0 being Sunday 2017-01-01.  Fields of the records   *)
(* that no operation of the loader reads (names, coordinates, times,       *)
(* pickup types) are copied verbatim by the code and are left out.         *)
(***************************************************************************)
EXTENDS Integers, Sequences, FiniteSets, TLC

VARIABLES
    mode,             \* what runs: "new", "from_reader", "query", "decode", "access"
    files,            \* the names of the files the bundle holds
    pc,               \* position of the running entry point
    step,             \* Gtfs::new: index of the next read_* call
    gtfs,             \* the Gtfs value being built (local `gtfs` / `result`)
    scanned,          \* from_reader: archive entries already visited
    stop_times_index, \* from_reader: the remembered stop_times entry
    stop_times_file,  \* whether read_stop_times was called, and the rows it was given
    ret,              \* what the entry point returned to its caller
    service_id,       \* trip_days: argument
    start_date,       \* trip_days: argument
    days,             \* trip_days: returned Vec<u16>
    input,            \* a decoder's or an accessor's argument
    output            \* what the decoder or the accessor returned

vars == <<mode, files, pc, step, gtfs, scanned, stop_times_index,
          stop_times_file, ret, service_id, start_date, days, input, output>>

----------------------------------------------------------------------------
(* Bounds of the model *)

\* longest stop_times file, in rows
MaxRows == 2
\* the dates of the model are 0..MaxDate
MaxDate == 3
\* longest calendar_dates file, in rows
MaxExceptions == 2

----------------------------------------------------------------------------
(* Files and their names *)

MandatoryFiles ==
    {"agency", "stops", "routes", "trips", "calendar", "calendar_dates", "stop_times"}

OptionalFiles == {"shapes", "fare_attributes"}

FileNames == MandatoryFiles \cup OptionalFiles

\* the File::open calls, the one of shapes.txt ending in `?` as well
OpenOrderWithShapes ==
    <<"trips", "calendar", "stops", "calendar_dates", "routes", "stop_times", "agency",
      "shapes">>

\* the order of the File::open calls of Gtfs::new that end in `?`
OpenOrder ==
    <<"trips", "calendar", "stops", "calendar_dates", "routes", "stop_times", "agency">>

\* the order of the read_* calls of Gtfs::new
NewOrderSwapped ==
    <<"trips", "calendar", "calendar_dates", "stop_times", "stops", "routes",
      "agency", "shapes", "fare_attributes">>

NewOrder ==
    <<"trips", "calendar", "calendar_dates", "stops", "routes", "stop_times",
      "agency", "shapes", "fare_attributes">>

----------------------------------------------------------------------------
(* Records *)

EmptyMap == [k \in {} |-> k]

OkRow(v) == [ok |-> TRUE, v |-> v]

BadRow(v) == [ok |-> FALSE, v |-> v]

Trip(id) == [id |-> id, service_id |-> "service1", route_id |-> "route1", stop_times |-> <<>>]

Stop(id) == [id |-> id]

Route(id) == [id |-> id]

Agency(name) == [name |-> name]

Shape(id, sequence) == [id |-> id, sequence |-> sequence]

FareAttribute(id) == [id |-> id]

StopTimeGtfs(trip_id, stop_id, stop_sequence) ==
    [trip_id |-> trip_id, stop_id |-> stop_id, stop_sequence |-> stop_sequence]

StopTimeFrom(stop_time_gtfs, stop) ==
    [stop |-> stop, stop_sequence |-> stop_time_gtfs.stop_sequence]

Calendar(id, flags, first, last) ==
    [id |-> id,
     monday |-> "Mon" \in flags, tuesday |-> "Tue" \in flags,
     wednesday |-> "Wed" \in flags, thursday |-> "Thu" \in flags,
     friday |-> "Fri" \in flags, saturday |-> "Sat" \in flags,
     sunday |-> "Sun" \in flags,
     start_date |-> first, end_date |-> last]

CalendarDate(id, date, exception_type) ==
    [service_id |-> id, date |-> date, exception_type |-> exception_type]

GtfsDefault ==
    [calendar |-> EmptyMap, calendar_dates |-> EmptyMap, stops |-> EmptyMap,
     routes |-> EmptyMap, trips |-> EmptyMap, agencies |-> <<>>,
     shapes |-> EmptyMap, fare_attributes |-> EmptyMap]

OkRes == [kind |-> "Ok", id |-> ""]

DecodeError == [kind |-> "Decode", id |-> ""]

ReferenceError(id) == [kind |-> "Reference", id |-> id]

----------------------------------------------------------------------------
(* Inputs: the contents a file of the bundle may have *)

SeqsUpTo(S, n) == UNION {[1..k -> S] : k \in 0..n}

TripIds == {"trip1", "trip2"}

StopIds == {"stop1", "stop2"}

StopSequences == {1, 2}

Dates == 0..MaxDate

TripsFiles ==
    {<<OkRow(Trip("trip1"))>>,
     <<OkRow(Trip("trip1")), OkRow(Trip("trip2"))>>,
     <<BadRow(Trip(""))>>}

StopsFiles ==
    {<<OkRow(Stop("stop1"))>>,
     <<OkRow(Stop("stop1")), OkRow(Stop("stop2"))>>,
     <<BadRow(Stop(""))>>}

StopTimeRows ==
    {OkRow(StopTimeGtfs(t, s, q)) : t \in TripIds, s \in StopIds, q \in StopSequences}
        \cup {BadRow(StopTimeGtfs("", "", 0))}

StopTimesFiles == SeqsUpTo(StopTimeRows, MaxRows)

FixtureCalendar == Calendar("service1", {"Sat", "Sun"}, 0, MaxDate)

FileContents(name) ==
    CASE name = "trips" -> TripsFiles
      [] name = "stops" -> StopsFiles
      [] name = "stop_times" -> StopTimesFiles
      [] name = "calendar" ->
            {<<OkRow(FixtureCalendar)>>, <<BadRow(FixtureCalendar)>>}
      [] name = "calendar_dates" ->
            {<<OkRow(CalendarDate("service1", 0, 2)), OkRow(CalendarDate("service2", 0, 1))>>,
             <<BadRow(CalendarDate("", 0, 0))>>}
      [] name = "routes" -> {<<OkRow(Route("route1"))>>, <<BadRow(Route(""))>>}
      [] name = "agency" -> {<<OkRow(Agency("BIBUS"))>>, <<BadRow(Agency(""))>>}
      [] name = "shapes" ->
            {<<OkRow(Shape("A_shp", 1)), OkRow(Shape("A_shp", 2))>>, <<BadRow(Shape("", 0))>>}
      [] name = "fare_attributes" ->
            {<<OkRow(FareAttribute("50"))>>, <<BadRow(FareAttribute(""))>>}

----------------------------------------------------------------------------
(* The read_* methods: each returns the Gtfs it leaves and its Result *)

AllOk(rows) == \A i \in 1..Len(rows) : rows[i].ok

\* collect::<Result<HashMap<_, _>, _>>() of (e.id, e): a later row replaces
\* an earlier row of the same id
CollectById(rows) ==
    LET ids == {rows[i].v.id : i \in 1..Len(rows)}
        last(id) == CHOOSE i \in 1..Len(rows) :
                        /\ rows[i].v.id = id
                        /\ \A j \in 1..Len(rows) : rows[j].v.id = id => j <= i
    IN  [id \in ids |-> rows[last(id)].v]

\* entry(key).or_insert_with(Vec::new).push(record)
EntryPush(map, key, record) ==
    [k \in DOMAIN map \cup {key} |->
        IF k = key
        THEN (IF key \in DOMAIN map THEN map[key] ELSE <<>>) \o <<record>>
        ELSE map[k]]

read_calendars(self, rows) ==
    IF AllOk(rows)
    THEN [gtfs |-> [self EXCEPT !.calendar = CollectById(rows)], res |-> OkRes]
    ELSE [gtfs |-> self, res |-> DecodeError]

RECURSIVE CalendarDatesLoop(_, _, _)
CalendarDatesLoop(self, rows, k) ==
    IF k > Len(rows) THEN [gtfs |-> self, res |-> OkRes]
    ELSE IF ~rows[k].ok THEN [gtfs |-> self, res |-> DecodeError]
    ELSE CalendarDatesLoop(
            [self EXCEPT !.calendar_dates =
                EntryPush(self.calendar_dates, rows[k].v.service_id, rows[k].v)],
            rows, k + 1)

read_calendar_dates(self, rows) == CalendarDatesLoop(self, rows, 1)

read_stops(self, rows) ==
    IF AllOk(rows)
    THEN [gtfs |-> [self EXCEPT !.stops = CollectById(rows)], res |-> OkRes]
    ELSE [gtfs |-> self, res |-> DecodeError]

read_routes(self, rows) ==
    IF AllOk(rows)
    THEN [gtfs |-> [self EXCEPT !.routes = CollectById(rows)], res |-> OkRes]
    ELSE [gtfs |-> self, res |-> DecodeError]

read_trips(self, rows) ==
    IF AllOk(rows)
    THEN [gtfs |-> [self EXCEPT !.trips = CollectById(rows)], res |-> OkRes]
    ELSE [gtfs |-> self, res |-> DecodeError]

read_agencies(self, rows) ==
    IF AllOk(rows)
    THEN [gtfs |-> [self EXCEPT !.agencies = [i \in 1..Len(rows) |-> rows[i].v]],
          res |-> OkRes]
    ELSE [gtfs |-> self, res |-> DecodeError]

RECURSIVE ShapesLoop(_, _, _)
ShapesLoop(self, rows, k) ==
    IF k > Len(rows) THEN [gtfs |-> self, res |-> OkRes]
    ELSE IF ~rows[k].ok THEN [gtfs |-> self, res |-> DecodeError]
    ELSE ShapesLoop(
            [self EXCEPT !.shapes = EntryPush(self.shapes, rows[k].v.id, rows[k].v)],
            rows, k + 1)

read_shapes(self, rows) == ShapesLoop(self, rows, 1)

read_fare_attributes(self, rows) ==
    IF AllOk(rows)
    THEN [gtfs |-> [self EXCEPT !.fare_attributes = CollectById(rows)], res |-> OkRes]
    ELSE [gtfs |-> self, res |-> DecodeError]

----------------------------------------------------------------------------
(* read_stop_times: the stop-visit resolver *)

\* the two lookups of one staged row, stop looked up before the trip
LookupStopFirst(self, s) ==
    IF s.stop_id \notin DOMAIN self.stops THEN ReferenceError(s.stop_id)
    ELSE IF s.trip_id \notin DOMAIN self.trips THEN ReferenceError(s.trip_id)
    ELSE OkRes

\* self.trips.get_mut(&s.trip_id).ok_or(..)?  then  self.stops.get_mut(&s.stop_id).ok_or(..)?
Lookup(self, s) ==
    IF s.trip_id \notin DOMAIN self.trips THEN ReferenceError(s.trip_id)
    ELSE IF s.stop_id \notin DOMAIN self.stops THEN ReferenceError(s.stop_id)
    ELSE OkRes

\* trip.stop_times.push(StopTime::from(&s, Arc::clone(&stop)))
Push(self, s) ==
    [self EXCEPT !.trips[s.trip_id].stop_times =
        Append(@, StopTimeFrom(s, self.stops[s.stop_id]))]

\* the first loop, dropping a row that does not resolve instead of failing
RECURSIVE AttachLoopSkipping(_, _, _)
AttachLoopSkipping(self, rows, k) ==
    IF k > Len(rows) THEN [gtfs |-> self, res |-> OkRes]
    ELSE IF ~rows[k].ok THEN [gtfs |-> self, res |-> DecodeError]
    ELSE IF Lookup(self, rows[k].v) # OkRes THEN AttachLoopSkipping(self, rows, k + 1)
    ELSE AttachLoopSkipping(Push(self, rows[k].v), rows, k + 1)

\* the first loop of read_stop_times, from row k on
RECURSIVE AttachLoop(_, _, _)
AttachLoop(self, rows, k) ==
    IF k > Len(rows) THEN [gtfs |-> self, res |-> OkRes]
    ELSE IF ~rows[k].ok THEN [gtfs |-> self, res |-> DecodeError]
    ELSE IF Lookup(self, rows[k].v) # OkRes
         THEN [gtfs |-> self, res |-> Lookup(self, rows[k].v)]
    ELSE AttachLoop(Push(self, rows[k].v), rows, k + 1)

\* insertion before the visits of the same stop_sequence: not stable
InsertBeforeEqual(sorted, v) ==
    LET p == Cardinality({i \in 1..Len(sorted) : sorted[i].stop_sequence < v.stop_sequence})
    IN  SubSeq(sorted, 1, p) \o <<v>> \o SubSeq(sorted, p + 1, Len(sorted))

\* where a stable sort puts v among the already sorted visits: after every
\* visit whose stop_sequence is not greater
InsertBySequence(sorted, v) ==
    LET p == Cardinality({i \in 1..Len(sorted) : sorted[i].stop_sequence <= v.stop_sequence})
    IN  SubSeq(sorted, 1, p) \o <<v>> \o SubSeq(sorted, p + 1, Len(sorted))

\* stop_times.sort_by(|a, b| a.stop_sequence.cmp(&b.stop_sequence)): slice::sort_by is stable
RECURSIVE sort_by_stop_sequence(_)
sort_by_stop_sequence(list) ==
    IF list = <<>> THEN <<>>
    ELSE InsertBySequence(sort_by_stop_sequence(SubSeq(list, 1, Len(list) - 1)),
                          list[Len(list)])

\* the second loop, keeping only the trips that were given a visit
SortAllDroppingEmpty(self) ==
    [self EXCEPT !.trips =
        [t \in {x \in DOMAIN self.trips : self.trips[x].stop_times # <<>>} |->
            [self.trips[t] EXCEPT !.stop_times = sort_by_stop_sequence(@)]]]

\* the second loop of read_stop_times
SortAll(self) ==
    [self EXCEPT !.trips =
        [t \in DOMAIN self.trips |->
            [self.trips[t] EXCEPT !.stop_times = sort_by_stop_sequence(@)]]]

read_stop_times(self, rows) ==
    LET r == AttachLoop(self, rows, 1)
    IN  IF r.res # OkRes THEN r
        ELSE [gtfs |-> SortAll(r.gtfs), res |-> OkRes]

\* the read_* call made for the file called name
Read(self, name, rows) ==
    CASE name = "trips" -> read_trips(self, rows)
      [] name = "calendar" -> read_calendars(self, rows)
      [] name = "calendar_dates" -> read_calendar_dates(self, rows)
      [] name = "stops" -> read_stops(self, rows)
      [] name = "routes" -> read_routes(self, rows)
      [] name = "stop_times" -> read_stop_times(self, rows)
      [] name = "agency" -> read_agencies(self, rows)
      [] name = "shapes" -> read_shapes(self, rows)
      [] name = "fare_attributes" -> read_fare_attributes(self, rows)

----------------------------------------------------------------------------
(* What an entry point returns *)

NoReturn == [tag |-> "None"]

Ok(g) == [tag |-> "Ok", gtfs |-> g]

\* Err(e); context is the file named by with_context, "" when there is none
Err(e, context) == [tag |-> "Err", kind |-> e.kind, id |-> e.id, context |-> context]

IoError(name) == [kind |-> "Io", id |-> name]

FormatError(message) == [kind |-> "Format", id |-> message]

----------------------------------------------------------------------------
(* trip_days: the service day calculator *)

\* a cast that saturates at u16::MAX instead of wrapping
AsU16Saturating(n) == IF n > 65535 THEN 65535 ELSE n

\* `as u16` of an i64
AsU16(n) == n % 65536

\* chrono's NaiveDate::weekday; day 0 is a Sunday
Weekday(date) == <<"Sun", "Mon", "Tue", "Wed", "Thu", "Fri", "Sat">>[(date % 7) + 1]

valid_weekday(calendar, date) ==
    CASE Weekday(date) = "Mon" -> calendar.monday
      [] Weekday(date) = "Tue" -> calendar.tuesday
      [] Weekday(date) = "Wed" -> calendar.wednesday
      [] Weekday(date) = "Thu" -> calendar.thursday
      [] Weekday(date) = "Fri" -> calendar.friday
      [] Weekday(date) = "Sat" -> calendar.saturday
      [] Weekday(date) = "Sun" -> calendar.sunday

\* one exception handled without the test offset >= 0
ExtraDayUnguarded(acc, extra_day, start) ==
    LET offset == extra_day.date - start
    IN  IF extra_day.exception_type = 1
        THEN [acc EXCEPT !.result = Append(@, AsU16(offset))]
        ELSE IF extra_day.exception_type = 2
        THEN [acc EXCEPT !.removed_days = @ \cup {offset}]
        ELSE acc

\* the body of the first loop of trip_days, for one exception of the service
ExtraDay(acc, extra_day, start) ==
    LET offset == extra_day.date - start
    IN  IF offset >= 0
        THEN IF extra_day.exception_type = 1
             THEN [acc EXCEPT !.result = Append(@, AsU16(offset))]
             ELSE IF extra_day.exception_type = 2
             THEN [acc EXCEPT !.removed_days = @ \cup {offset}]
             ELSE acc
        ELSE acc

\* the first loop of trip_days, from the k-th exception on
RECURSIVE ExtraDaysLoop(_, _, _, _)
ExtraDaysLoop(acc, extra_days, k, start) ==
    IF k > Len(extra_days) THEN acc
    ELSE ExtraDaysLoop(ExtraDay(acc, extra_days[k], start), extra_days, k + 1, start)

\* the offset counted from the calendar's start_date
PatternOffsetFromCalendarStart(calendar, start, days_offset) ==
    AsU16(start + days_offset - calendar.start_date)

\* the value pushed for an admitted day
PatternOffset(calendar, start, days_offset) == AsU16(days_offset)

\* the condition of the second loop, a removed day admitted as well
AdmitsRemoved(calendar, start, days_offset, removed_days) ==
    LET current_date == start + days_offset
    IN  /\ calendar.start_date <= current_date
        /\ calendar.end_date >= current_date
        /\ valid_weekday(calendar, current_date)

\* the condition of the second loop of trip_days
Admits(calendar, start, days_offset, removed_days) ==
    LET current_date == start + days_offset
    IN  /\ calendar.start_date <= current_date
        /\ calendar.end_date >= current_date
        /\ valid_weekday(calendar, current_date)
        /\ days_offset \notin removed_days

\* the second loop walked from total_days down to 0
RECURSIVE CalendarLoopDescending(_, _, _, _, _)
CalendarLoopDescending(acc, calendar, start, days_offset, total_days) ==
    IF days_offset > total_days THEN acc
    ELSE LET d == total_days - days_offset
         IN  CalendarLoopDescending(
                IF Admits(calendar, start, d, acc.removed_days)
                THEN [acc EXCEPT !.result = Append(@, PatternOffset(calendar, start, d))]
                ELSE acc,
                calendar, start, days_offset + 1, total_days)

\* the second loop of trip_days: for days_offset in 0..=total_days
RECURSIVE CalendarLoop(_, _, _, _, _)
CalendarLoop(acc, calendar, start, days_offset, total_days) ==
    IF days_offset > total_days THEN acc
    ELSE CalendarLoop(
            IF Admits(calendar, start, days_offset, acc.removed_days)
            THEN [acc EXCEPT !.result = Append(@, PatternOffset(calendar, start, days_offset))]
            ELSE acc,
            calendar, start, days_offset + 1, total_days)

\* the calendar days pushed before the exceptions
trip_days_calendar_first(self, sid, start) ==
    LET extra_days == IF sid \in DOMAIN self.calendar_dates
                      THEN self.calendar_dates[sid] ELSE <<>>
        first == IF sid \in DOMAIN self.calendar
                 THEN CalendarLoop([result |-> <<>>,
                                    removed_days |->
                                        ExtraDaysLoop([result |-> <<>>, removed_days |-> {}],
                                                      extra_days, 1, start).removed_days],
                                   self.calendar[sid], start, 0,
                                   self.calendar[sid].end_date - start)
                 ELSE [result |-> <<>>, removed_days |-> {}]
    IN  ExtraDaysLoop(first, extra_days, 1, start).result

\* a removed day suppressing the exception additions of that day as well
trip_days_removing_additions(self, sid, start) ==
    LET extra_days == IF sid \in DOMAIN self.calendar_dates
                      THEN self.calendar_dates[sid] ELSE <<>>
        first == ExtraDaysLoop([result |-> <<>>, removed_days |-> {}], extra_days, 1, start)
        Kept(d) == d \notin first.removed_days
        kept == [first EXCEPT !.result = SelectSeq(@, Kept)]
    IN  IF sid \in DOMAIN self.calendar
        THEN CalendarLoop(kept, self.calendar[sid], start, 0,
                          self.calendar[sid].end_date - start).result
        ELSE kept.result

trip_days(self, sid, start) ==
    LET extra_days == IF sid \in DOMAIN self.calendar_dates
                      THEN self.calendar_dates[sid] ELSE <<>>
        first == ExtraDaysLoop([result |-> <<>>, removed_days |-> {}], extra_days, 1, start)
    IN  IF sid \in DOMAIN self.calendar
        THEN CalendarLoop(first, self.calendar[sid], start, 0,
                          self.calendar[sid].end_date - start).result
        ELSE first.result

----------------------------------------------------------------------------
(* Inputs of trip_days *)

ServiceIds == {"service1", "service2"}

\* the weekdays a calendar of the model may switch on
PatternPool == {"Mon", "Tue"}

ExceptionTypes == {1, 2}

CalendarFiles ==
    {<<>>} \cup {<<OkRow(Calendar("service1", f, a, b))>> :
                    f \in SUBSET PatternPool, a \in Dates, b \in Dates}

CalendarDatesFiles ==
    SeqsUpTo({OkRow(CalendarDate("service1", d, t)) : d \in Dates, t \in ExceptionTypes},
             MaxExceptions)

----------------------------------------------------------------------------
(* Gtfs::new: load of a directory *)

NotRead == [read |-> FALSE, rows |-> <<>>]

NoInput == [fn |-> ""]

NoOutput == [tag |-> "None"]

WasRead(rows) == [read |-> TRUE, rows |-> rows]

\* the nine File::open calls: a missing mandatory file ends the load
NewOpen ==
    /\ mode = "new"
    /\ pc = "open"
    /\ IF \A i \in 1..Len(OpenOrder) : OpenOrder[i] \in files
       THEN /\ pc' = "read"
            /\ step' = 1
            /\ ret' = ret
       ELSE /\ LET first == CHOOSE i \in 1..Len(OpenOrder) :
                                /\ OpenOrder[i] \notin files
                                /\ \A j \in 1..(i - 1) : OpenOrder[j] \in files
               IN  ret' = Err(IoError(OpenOrder[first]), "")
            /\ pc' = "done"
            /\ step' = step
    /\ UNCHANGED <<mode, files, gtfs, scanned, stop_times_index, stop_times_file,
                   service_id, start_date, days,
                   input, output>>

\* the next read_* call; shapes and fare_attributes are read only when opened
NewRead ==
    /\ mode = "new"
    /\ pc = "read"
    /\ step <= Len(NewOrder)
    /\ LET name == NewOrder[step]
       IN  IF name \notin files
           THEN /\ step' = step + 1
                /\ UNCHANGED <<pc, gtfs, stop_times_file, ret>>
           ELSE \E rows \in FileContents(name) :
                    LET r == Read(gtfs, name, rows)
                    IN  /\ gtfs' = r.gtfs
                        /\ stop_times_file' =
                              IF name = "stop_times" THEN WasRead(rows) ELSE stop_times_file
                        /\ IF r.res = OkRes
                           THEN /\ step' = step + 1
                                /\ UNCHANGED <<pc, ret>>
                           ELSE /\ pc' = "done"
                                /\ ret' = Err(r.res, "")
                                /\ step' = step
    /\ UNCHANGED <<mode, files, scanned, stop_times_index, service_id, start_date, days,
                   input, output>>

\* Ok(gtfs)
NewReturn ==
    /\ mode = "new"
    /\ pc = "read"
    /\ step = Len(NewOrder) + 1
    /\ ret' = Ok(gtfs)
    /\ pc' = "done"
    /\ UNCHANGED <<mode, files, step, gtfs, scanned, stop_times_index, stop_times_file,
                   service_id, start_date, days,
                   input, output>>

----------------------------------------------------------------------------
(* Gtfs::from_reader: load of an archive.  The archive's entries come in   *)
(* an order the archive decides: each step visits any entry not yet        *)
(* visited.                                                                *)

\* one turn of the scan; stop_times is remembered, every other entry is read
FromReaderScan ==
    /\ mode = "from_reader"
    /\ pc = "scan"
    /\ \E name \in files \ scanned :
          IF name = "stop_times"
          THEN /\ stop_times_index' = "Some"
               /\ scanned' = scanned \cup {name}
               /\ UNCHANGED <<pc, gtfs, ret>>
          ELSE \E rows \in FileContents(name) :
                  LET r == Read(gtfs, name, rows)
                  IN  /\ gtfs' = r.gtfs
                      /\ stop_times_index' = stop_times_index
                      /\ IF r.res = OkRes
                         THEN /\ scanned' = scanned \cup {name}
                              /\ UNCHANGED <<pc, ret>>
                         ELSE /\ pc' = "done"
                              /\ ret' = Err(r.res, name)
                              /\ scanned' = scanned
    /\ UNCHANGED <<mode, files, step, stop_times_file, service_id, start_date, days,
                   input, output>>

\* after the scan: the remembered stop_times entry is read, and Ok(result)
FromReaderResolve ==
    /\ mode = "from_reader"
    /\ pc = "scan"
    /\ scanned = files
    /\ IF stop_times_index = "None"
       THEN /\ ret' = Err(FormatError("Missing stop_times.txt"), "")
            /\ UNCHANGED <<gtfs, stop_times_file>>
       ELSE \E rows \in FileContents("stop_times") :
               LET r == Read(gtfs, "stop_times", rows)
               IN  /\ gtfs' = r.gtfs
                   /\ stop_times_file' = WasRead(rows)
                   /\ ret' = IF r.res = OkRes THEN Ok(r.gtfs) ELSE Err(r.res, "stop_times")
    /\ pc' = "done"
    /\ UNCHANGED <<mode, files, step, scanned, stop_times_index, service_id, start_date, days,
                   input, output>>

----------------------------------------------------------------------------
(* A call of trip_days on a Store *)

TripDaysCall ==
    /\ mode = "query"
    /\ pc = "ready"
    /\ \E sid \in ServiceIds, start \in Dates :
          /\ service_id' = sid
          /\ start_date' = start
          /\ days' = trip_days(gtfs, sid, start)
    /\ pc' = "called"
    /\ UNCHANGED <<mode, files, step, gtfs, scanned, stop_times_index, stop_times_file, ret,
                   input, output>>

----------------------------------------------------------------------------
(* Specifications *)

\* a load is started on a bundle holding any of the nine files
Init ==
    /\ mode \in {"new", "from_reader"}
    /\ files \in SUBSET FileNames
    /\ pc = IF mode = "new" THEN "open" ELSE "scan"
    /\ step = 0
    /\ gtfs = GtfsDefault
    /\ scanned = {}
    /\ stop_times_index = "None"
    /\ stop_times_file = NotRead
    /\ ret = NoReturn
    /\ service_id = ""
    /\ start_date = 0
    /\ days = <<>>
    /\ input = NoInput
    /\ output = NoOutput

Next == NewOpen \/ NewRead \/ NewReturn \/ FromReaderScan \/ FromReaderResolve

Spec == Init /\ [][Next]_vars

\* a Store holding what read_calendars and read_calendar_dates made of their files
InitDays ==
    /\ mode = "query"
    /\ files = {"calendar", "calendar_dates"}
    /\ pc = "ready"
    /\ step = 0
    /\ \E c \in CalendarFiles, e \in CalendarDatesFiles :
          gtfs = read_calendar_dates(read_calendars(GtfsDefault, c).gtfs, e).gtfs
    /\ scanned = {}
    /\ stop_times_index = "None"
    /\ stop_times_file = NotRead
    /\ ret = NoReturn
    /\ service_id = ""
    /\ start_date = 0
    /\ days = <<>>
    /\ input = NoInput
    /\ output = NoOutput

NextDays == TripDaysCall

SpecDays == InitDays /\ [][NextDays]_vars

----------------------------------------------------------------------------
(* Properties of the load *)

\* the rows given to read_stop_times
Rows == stop_times_file.rows

\* row k decodes and both its ids are keys of the Store g
Resolves(g, k) ==
    /\ Rows[k].ok
    /\ Rows[k].v.trip_id \in DOMAIN g.trips
    /\ Rows[k].v.stop_id \in DOMAIN g.stops

\* the first row that does not decode or does not resolve; 0 when there is none
FirstFailing(g) ==
    IF \A k \in 1..Len(Rows) : Resolves(g, k) THEN 0
    ELSE CHOOSE k \in 1..Len(Rows) :
            /\ ~Resolves(g, k)
            /\ \A j \in 1..(k - 1) : Resolves(g, j)

\* the number of visits the trips of g hold
RECURSIVE SumLen(_, _)
SumLen(g, ids) ==
    IF ids = {} THEN 0
    ELSE LET t == CHOOSE x \in ids : TRUE
         IN  Len(g.trips[t].stop_times) + SumLen(g, ids \ {t})

Visits(g) == SumLen(g, DOMAIN g.trips)

Count(list, x) == Cardinality({i \in 1..Len(list) : list[i] = x})

\* C1: when the first row of stop_times that fails is a decoded row whose
\* trip id or stop id is not a key of the Store, read_stop_times stops at
\* that row (only the rows before it are attached) with a ReferenceError
\* carrying the trip id when the trip is unknown, else the stop id, and the
\* load returns an error.
C1_ReferenceErrorNamesMissingId ==
    stop_times_file.read =>
        LET k == FirstFailing(gtfs)
        IN  (k > 0 /\ Rows[k].ok) =>
                /\ ret.tag = "Err"
                /\ ret.kind = "Reference"
                /\ ret.id = IF Rows[k].v.trip_id \notin DOMAIN gtfs.trips
                            THEN Rows[k].v.trip_id
                            ELSE Rows[k].v.stop_id
                /\ Visits(gtfs) = k - 1

\* C1 witness: the second row names an unknown trip and an unknown stop,
\* after a first row that was attached, and the load failed on the trip id.
C1_Witness ==
    /\ stop_times_file.read
    /\ FirstFailing(gtfs) = 2
    /\ Rows[2].ok
    /\ Rows[2].v.trip_id \notin DOMAIN gtfs.trips
    /\ Rows[2].v.stop_id \notin DOMAIN gtfs.stops
    /\ ret.tag = "Err"
    /\ ret.id = Rows[2].v.trip_id

\* C2: a load never returns a Store holding only some of the visits: an
\* error comes without a Store, and a returned Store has, for every trip,
\* exactly the visits of the stop_times rows naming that trip, each with
\* the Store's own stop record for the row's stop id.
C2_LoadIsAtomic ==
    /\ ret.tag \in {"None", "Ok", "Err"}
    /\ ret.tag = "Err" => "gtfs" \notin DOMAIN ret
    /\ ret.tag = "Ok" =>
        /\ stop_times_file.read
        /\ \A k \in 1..Len(Rows) : Resolves(ret.gtfs, k)
        /\ Visits(ret.gtfs) = Len(Rows)
        /\ \A k \in 1..Len(Rows) :
              LET t == Rows[k].v.trip_id
                  v == [stop |-> ret.gtfs.stops[Rows[k].v.stop_id],
                        stop_sequence |-> Rows[k].v.stop_sequence]
              IN  Count(ret.gtfs.trips[t].stop_times, v)
                    = Cardinality({j \in 1..Len(Rows) :
                                      /\ Rows[j].v.trip_id = t
                                      /\ Rows[j].v.stop_id = Rows[k].v.stop_id
                                      /\ Rows[j].v.stop_sequence = Rows[k].v.stop_sequence})

\* C2 witness: a Store was returned whose two rows went to two different trips.
C2_Witness ==
    /\ ret.tag = "Ok"
    /\ Len(Rows) = 2
    /\ Rows[1].v.trip_id # Rows[2].v.trip_id
    /\ \A t \in DOMAIN ret.gtfs.trips : Len(ret.gtfs.trips[t].stop_times) = 1

\* C3: after a successful read_stop_times every trip's visits are in
\* non-decreasing stop_sequence order, and the visits of one stop_sequence
\* are in the order of their rows in the file.
C3_SortedAndStable ==
    (stop_times_file.read /\ FirstFailing(gtfs) = 0) =>
        \A t \in DOMAIN gtfs.trips :
            LET list == gtfs.trips[t].stop_times
            IN  /\ \A i \in 1..Len(list) : \A j \in i..Len(list) :
                      list[i].stop_sequence <= list[j].stop_sequence
                /\ \A q \in StopSequences :
                      LET HasQ(v) == v.stop_sequence = q
                          RowOfTQ(r) == r.v.trip_id = t /\ r.v.stop_sequence = q
                          inFile == SelectSeq(Rows, RowOfTQ)
                      IN  SelectSeq(list, HasQ) =
                            [i \in 1..Len(inFile) |->
                                [stop |-> gtfs.stops[inFile[i].v.stop_id],
                                 stop_sequence |-> q]]

\* C3 witness: a trip holds two visits of the same stop_sequence at two stops.
C3_Witness ==
    /\ stop_times_file.read
    /\ FirstFailing(gtfs) = 0
    /\ \E t \in DOMAIN gtfs.trips :
          LET list == gtfs.trips[t].stop_times
          IN  /\ Len(list) = 2
              /\ list[1].stop_sequence = list[2].stop_sequence
              /\ list[1].stop # list[2].stop

\* the files whose read_* call has returned Ok
AlreadyRead ==
    IF mode = "new" THEN {NewOrder[i] : i \in 1..(step - 1)} \ {"stop_times"}
    ELSE scanned \ {"stop_times"}

\* C4: whenever read_stop_times has been called, every trips file and
\* stops file of the bundle had been read into the Store before.
C4_ResolverRunsAfterTripsAndStops ==
    stop_times_file.read =>
        \A name \in {"trips", "stops"} \cap files :
            /\ name \in AlreadyRead
            /\ (name = "trips") => gtfs.trips # EmptyMap
            /\ (name = "stops") => gtfs.stops # EmptyMap

\* C4 witness: an archive holding trips, stops and stop_times was resolved.
C4_Witness ==
    /\ mode = "from_reader"
    /\ {"trips", "stops", "stop_times"} \subseteq files
    /\ stop_times_file.read
    /\ Len(Rows) > 0
    /\ ret.tag = "Ok"

\* C5: a load that returns a Store was given all seven mandatory files.
C5_MissingMandatoryFileIsFatal ==
    ret.tag = "Ok" => MandatoryFiles \subseteq files

----------------------------------------------------------------------------
(* Properties of trip_days, stated on the call (service_id, start_date)    *)
(* and the list `days` it returned                                         *)

Called == mode = "query" /\ pc = "called"

\* the exceptions the Store holds for the service, in file order
Exceptions ==
    IF service_id \in DOMAIN gtfs.calendar_dates
    THEN gtfs.calendar_dates[service_id] ELSE <<>>

HasCalendar == service_id \in DOMAIN gtfs.calendar

\* the type-1 exceptions dated on or after the start date, in file order
IsAddition(e) == e.exception_type = 1 /\ e.date >= start_date

Additions == SelectSeq(Exceptions, IsAddition)

\* the part of the returned list behind the exception additions
PatternPart == SubSeq(days, Len(Additions) + 1, Len(days))

\* the calendar's flag for the weekday of a date (day 0 is a Sunday)
FlagOf(calendar, date) ==
    calendar[<<"sunday", "monday", "tuesday", "wednesday", "thursday", "friday",
               "saturday">>[(date % 7) + 1]]

\* a type-2 exception dated on or after the start date has offset d
Removed(d) ==
    \E k \in 1..Len(Exceptions) :
        /\ Exceptions[k].exception_type = 2
        /\ Exceptions[k].date >= start_date
        /\ Exceptions[k].date - start_date = d

\* the offsets the weekly pattern of the service's calendar yields
PatternSet ==
    IF HasCalendar
    THEN LET c == gtfs.calendar[service_id]
         IN  {d \in 0..(c.end_date - start_date) :
                /\ c.start_date <= start_date + d
                /\ start_date + d <= c.end_date
                /\ FlagOf(c, start_date + d)
                /\ ~Removed(d)}
    ELSE {}

\* the elements of a finite set of integers in ascending order
RECURSIVE Ascending(_)
Ascending(S) ==
    IF S = {} THEN <<>>
    ELSE LET m == CHOOSE x \in S : \A y \in S : x <= y
         IN  <<m>> \o Ascending(S \ {m})

StrictlyIncreasing(list) ==
    \A i \in 1..Len(list) : \A j \in (i + 1)..Len(list) : list[i] < list[j]

\* C6 as stated: the returned list is strictly increasing and holds only
\* non-negative offsets.
C6_AscendingWithoutDuplicates ==
    Called => /\ StrictlyIncreasing(days)
              /\ \A i \in 1..Len(days) : days[i] >= 0

\* C6 amended: every returned offset is non-negative, and the part of the
\* list that comes from the weekly pattern, behind the exception additions,
\* is strictly increasing; the list as a whole need not be.
C6_PatternPartStrictlyIncreasing ==
    Called => /\ \A i \in 1..Len(days) : days[i] >= 0
              /\ Len(days) >= Len(Additions)
              /\ StrictlyIncreasing(PatternPart)

\* C6 witness: an addition is followed by two pattern days smaller than it.
C6_Witness ==
    /\ Called
    /\ Len(Additions) = 1
    /\ Len(PatternPart) = 2
    /\ days[1] > days[2]

\* C7: for a service with a calendar entry, an offset d of
\* 0..(end date - start date) is among the pattern days returned exactly
\* when start_date + d is inside [calendar start, calendar end], the
\* calendar's flag for its weekday is set, and no type-2 exception dated on
\* or after the start date has offset d.
C7_PatternDayIffAdmitted ==
    (Called /\ HasCalendar) =>
        LET c == gtfs.calendar[service_id]
        IN  \A d \in 0..(c.end_date - start_date) :
                (\E i \in 1..Len(PatternPart) : PatternPart[i] = d)
                <=> /\ c.start_date <= start_date + d
                    /\ start_date + d <= c.end_date
                    /\ FlagOf(c, start_date + d)
                    /\ ~Removed(d)

\* C7 witness: one day of the pattern is returned and another day, which
\* the pattern admits, is suppressed by a type-2 exception.
C7_Witness ==
    /\ Called
    /\ HasCalendar
    /\ Len(PatternPart) > 0
    /\ LET c == gtfs.calendar[service_id]
       IN  \E d \in 0..(c.end_date - start_date) :
              /\ c.start_date <= start_date + d
              /\ FlagOf(c, start_date + d)
              /\ Removed(d)
              /\ \A i \in 1..Len(days) : days[i] # d

\* C8: the returned list is the offsets of the type-1 exceptions dated on
\* or after the start date, in file order, followed by the pattern offsets
\* in ascending order; without a calendar entry it is the first part
\* alone, and with neither calendar nor exceptions it is empty.
C8_AdditionsThenPattern ==
    Called =>
        /\ days = [i \in 1..Len(Additions) |-> Additions[i].date - start_date]
                    \o Ascending(PatternSet)
        /\ ~HasCalendar =>
              days = [i \in 1..Len(Additions) |-> Additions[i].date - start_date]
        /\ (~HasCalendar /\ Exceptions = <<>>) => days = <<>>

\* C8 witness: two additions out of date order are followed by a pattern day.
C8_Witness ==
    /\ Called
    /\ HasCalendar
    /\ Len(Additions) = 2
    /\ Additions[1].date > Additions[2].date
    /\ PatternSet # {}
    /\ Len(days) > 2

\* the Store without the k-th exception of the service
WithoutException(k) ==
    LET rest == SubSeq(Exceptions, 1, k - 1) \o SubSeq(Exceptions, k + 1, Len(Exceptions))
    IN  [gtfs EXCEPT !.calendar_dates =
            IF rest = <<>>
            THEN [s \in DOMAIN gtfs.calendar_dates \ {service_id} |-> gtfs.calendar_dates[s]]
            ELSE [gtfs.calendar_dates EXCEPT ![service_id] = rest]]

\* C9: an exception dated before the start date changes nothing: the list
\* returned is the list returned for the Store without that exception, and
\* no returned offset belongs to it.
C9_ExceptionBeforeStartIgnored ==
    Called =>
        \A k \in 1..Len(Exceptions) :
            Exceptions[k].date < start_date =>
                /\ days = trip_days(WithoutException(k), service_id, start_date)
                /\ \A i \in 1..Len(days) :
                      days[i] # (Exceptions[k].date - start_date) % 65536

\* C9 witness: a type-1 and a type-2 exception both precede the start date
\* and the call still returns a pattern day.
C9_Witness ==
    /\ Called
    /\ \E k \in 1..Len(Exceptions) :
          Exceptions[k].date < start_date /\ Exceptions[k].exception_type = 1
    /\ \E k \in 1..Len(Exceptions) :
          Exceptions[k].date < start_date /\ Exceptions[k].exception_type = 2
    /\ days # <<>>

\* C10 as stated: for a service with a calendar entry every returned offset
\* is at most (calendar end date - start date).
C10_ScopedToCalendarEnd ==
    (Called /\ HasCalendar) =>
        \A i \in 1..Len(days) : days[i] <= gtfs.calendar[service_id].end_date - start_date

\* C10 amended: for a service with a calendar entry every offset that comes
\* from the weekly pattern is at most (calendar end date - start date);
\* the offsets of type-1 exceptions are not bounded by the calendar end date.
C10_PatternScopedToCalendarEnd ==
    (Called /\ HasCalendar) =>
        \A i \in 1..Len(PatternPart) :
            PatternPart[i] <= gtfs.calendar[service_id].end_date - start_date

\* C10 witness: a pattern day is returned together with an addition dated
\* after the calendar's end date.
C10_Witness ==
    /\ Called
    /\ HasCalendar
    /\ Len(PatternPart) > 0
    /\ \E i \in 1..Len(Additions) :
          Additions[i].date > gtfs.calendar[service_id].end_date

----------------------------------------------------------------------------
(* Field decoders: RouteType, Transfers and parse_time.  A csv field is    *)
(* empty, an integer literal, or some other text.                          *)

\* largest small code a field of the model holds
MaxCode == 9

EmptyField == [kind |-> "empty", n |-> 0]

TextField == [kind |-> "text", n |-> 0]

IntField(n) == [kind |-> "int", n |-> n]

\* the integer literals of the model: around 0..7, the test's 42, around u16::MAX
Codes == (-1..MaxCode) \cup {42, 65535, 65536, 65536 + 3}

Fields == {EmptyField, TextField} \cup {IntField(n) : n \in Codes}

DecodeOk(v) == [tag |-> "Ok", v |-> v]

DecodeErr == [tag |-> "Err"]

Panic == [tag |-> "Panic"]

\* u16::deserialize of a csv field
U16Deserialize(field) ==
    IF field.kind = "int" /\ 0 <= field.n /\ field.n <= 65535
    THEN DecodeOk(field.n)
    ELSE DecodeErr

\* Option::<u16>::deserialize of a csv field: an empty field is None
OptionU16Deserialize(field) ==
    IF field.kind = "empty" THEN DecodeOk([some |-> FALSE, n |-> 0])
    ELSE IF U16Deserialize(field).tag = "Ok"
         THEN DecodeOk([some |-> TRUE, n |-> field.n])
         ELSE DecodeErr

Named(variant) == [variant |-> variant, n |-> 0]

Other(n) == [variant |-> "Other", n |-> n]

\* the match of RouteType::deserialize, its last arm yielding the default
RouteTypeOfDefaulting(i) ==
    CASE i = 0 -> Named("Tramway")
      [] i = 1 -> Named("Subway")
      [] i = 2 -> Named("Rail")
      [] i = 3 -> Named("Bus")
      [] i = 4 -> Named("Ferry")
      [] i = 5 -> Named("CableCar")
      [] i = 6 -> Named("Gondola")
      [] i = 7 -> Named("Funicular")
      [] OTHER -> Named("Bus")

\* the match of RouteType::deserialize
RouteTypeOf(i) ==
    CASE i = 0 -> Named("Tramway")
      [] i = 1 -> Named("Subway")
      [] i = 2 -> Named("Rail")
      [] i = 3 -> Named("Bus")
      [] i = 4 -> Named("Ferry")
      [] i = 5 -> Named("CableCar")
      [] i = 6 -> Named("Gondola")
      [] i = 7 -> Named("Funicular")
      [] OTHER -> Other(i)

RouteTypeDeserialize(field) ==
    LET i == U16Deserialize(field)
    IN  IF i.tag = "Ok" THEN DecodeOk(RouteTypeOf(i.v)) ELSE DecodeErr

\* Transfers::default()
TransfersDefault == Named("Unlimited")

\* the match of Transfers::deserialize
TransfersOf(i) ==
    IF ~i.some THEN TransfersDefault
    ELSE CASE i.n = 0 -> Named("NoTransfer")
           [] i.n = 1 -> Named("UniqueTransfer")
           [] i.n = 2 -> Named("TwoTransfers")
           [] OTHER -> Other(i.n)

TransfersDeserialize(field) ==
    LET i == OptionU16Deserialize(field)
    IN  IF i.tag = "Ok" THEN DecodeOk(TransfersOf(i.v)) ELSE DecodeErr

----------------------------------------------------------------------------
(* parse_time.  The text is given as v, the components s.split(':')        *)
(* yields (at least one); a component is a decimal u32 literal or not.     *)

\* longest text, in components
MaxComponents == 4

Numeric(n) == [num |-> TRUE, n |-> n]

NotNumeric == [num |-> FALSE, n |-> 0]

\* the components of the model; 1193047 is the least hour whose product
\* with 3600 does not fit a u32
Components == {NotNumeric} \cup {Numeric(n) : n \in {0, 7, 25, 1193047}}

TimeTexts == UNION {[1..k -> Components] : k \in 1..MaxComponents}

\* a number as hi * 65536 + lo with lo < 65536: a u32 has hi < 65536
Wide(hi, lo) == [hi |-> hi + (lo \div 65536), lo |-> lo % 65536]

\* n * k as a wide number, for a u32 literal n and a factor k of at most 3600
Times(n, k) == Wide((n \div 65536) * k, (n % 65536) * k)

Plus(a, b) == Wide(a.hi + b.hi, a.lo + b.lo)

\* a u32 operation: the value when it fits; when it does not, the build
\* decides between a panic (overflow checks on) and the wrapped value
U32(w) ==
    IF w.hi < 65536 THEN {DecodeOk(w)}
    ELSE {Panic, DecodeOk([hi |-> w.hi % 65536, lo |-> w.lo])}

\* the outcomes of parse_time: v[0], v[1] and v[2] are parsed and combined
\* from left to right; indexing past the end of v panics
parse_time(v) ==
    IF ~v[1].num THEN {DecodeErr}
    ELSE UNION {
        IF a.tag = "Panic" THEN {Panic}
        ELSE IF Len(v) < 2 THEN {Panic}
        ELSE IF ~v[2].num THEN {DecodeErr}
        ELSE UNION {
            IF b.tag = "Panic" THEN {Panic}
            ELSE IF Len(v) < 3 THEN {Panic}
            ELSE IF ~v[3].num THEN {DecodeErr}
            ELSE U32(Plus(b.v, Times(v[3].n, 1)))
            : b \in U32(Plus(a.v, Times(v[2].n, 60)))}
        : a \in U32(Times(v[1].n, 3600))}

----------------------------------------------------------------------------
(* Calls of the decoders *)

RouteTypeCall ==
    /\ mode = "decode"
    /\ pc = "ready"
    /\ input.fn = "RouteType"
    /\ output' = RouteTypeDeserialize(input.field)
    /\ pc' = "called"
    /\ UNCHANGED <<mode, files, step, gtfs, scanned, stop_times_index, stop_times_file,
                   ret, service_id, start_date, days, input>>

TransfersCall ==
    /\ mode = "decode"
    /\ pc = "ready"
    /\ input.fn = "Transfers"
    /\ output' = TransfersDeserialize(input.field)
    /\ pc' = "called"
    /\ UNCHANGED <<mode, files, step, gtfs, scanned, stop_times_index, stop_times_file,
                   ret, service_id, start_date, days, input>>

ParseTimeCall ==
    /\ mode = "decode"
    /\ pc = "ready"
    /\ input.fn = "parse_time"
    /\ output' \in parse_time(input.v)
    /\ pc' = "called"
    /\ UNCHANGED <<mode, files, step, gtfs, scanned, stop_times_index, stop_times_file,
                   ret, service_id, start_date, days, input>>

\* a decoder is given a field, parse_time a text
InitDecode ==
    /\ mode = "decode"
    /\ files = {}
    /\ pc = "ready"
    /\ step = 0
    /\ gtfs = GtfsDefault
    /\ scanned = {}
    /\ stop_times_index = "None"
    /\ stop_times_file = NotRead
    /\ ret = NoReturn
    /\ service_id = ""
    /\ start_date = 0
    /\ days = <<>>
    /\ input \in {[fn |-> f, field |-> x] : f \in {"RouteType", "Transfers"}, x \in Fields}
                    \cup {[fn |-> "parse_time", v |-> t] : t \in TimeTexts}
    /\ output = NoOutput

NextDecode == RouteTypeCall \/ TransfersCall \/ ParseTimeCall

SpecDecode == InitDecode /\ [][NextDecode]_vars

DecodeCalled(fn) == mode = "decode" /\ pc = "called" /\ input.fn = fn

RouteTypeNames ==
    <<"Tramway", "Subway", "Rail", "Bus", "Ferry", "CableCar", "Gondola", "Funicular">>

\* what the claim expects of a route type code
ExpectedRouteType(n) ==
    IF n \in 0..7 THEN [variant |-> RouteTypeNames[n + 1], n |-> 0]
    ELSE [variant |-> "Other", n |-> n]

\* what the claim expects of a transfers code
ExpectedTransfers(n) ==
    IF n \in 0..2
    THEN [variant |-> <<"NoTransfer", "UniqueTransfer", "TwoTransfers">>[n + 1], n |-> 0]
    ELSE [variant |-> "Other", n |-> n]

C12_ParseTimeTotal ==
    DecodeCalled("parse_time") =>
        LET v == input.v
        IN  IF Len(v) = 3 /\ \A i \in 1..3 : v[i].num
            THEN output = [tag |-> "Ok",
                           v |-> Plus(Plus(Times(v[1].n, 3600), Times(v[2].n, 60)),
                                      Times(v[3].n, 1))]
            ELSE output = [tag |-> "Err"]

----------------------------------------------------------------------------
(* The accessors: get_stop .. get_fare_attributes, on a built Store *)

Found(record) == [tag |-> "Ok", v |-> record]

NotFound(id) == [tag |-> "Err", e |-> ReferenceError(id)]

\* a miss that does not say which id was asked for
get_stop_anonymous(self, id) ==
    IF id \in DOMAIN self.stops THEN Found(self.stops[id]) ELSE NotFound("")

get_stop(self, id) ==
    IF id \in DOMAIN self.stops THEN Found(self.stops[id]) ELSE NotFound(id)

get_trip(self, id) ==
    IF id \in DOMAIN self.trips THEN Found(self.trips[id]) ELSE NotFound(id)

get_route(self, id) ==
    IF id \in DOMAIN self.routes THEN Found(self.routes[id]) ELSE NotFound(id)

get_calendar(self, id) ==
    IF id \in DOMAIN self.calendar THEN Found(self.calendar[id]) ELSE NotFound(id)

get_calendar_date(self, id) ==
    IF id \in DOMAIN self.calendar_dates
    THEN Found(self.calendar_dates[id]) ELSE NotFound(id)

get_shape(self, id) ==
    IF id \in DOMAIN self.shapes THEN Found(self.shapes[id]) ELSE NotFound(id)

get_fare_attributes(self, id) ==
    IF id \in DOMAIN self.fare_attributes
    THEN Found(self.fare_attributes[id]) ELSE NotFound(id)

\* the ids asked for: the keys the files of the model give, and one of no file
QueryIds ==
    {"stop1", "stop2", "trip1", "trip2", "route1", "service1", "service2",
     "A_shp", "50", "Utopia"}

\* the files of a name that decode, and the file of no row
Decodable(name) == {<<>>} \cup {f \in FileContents(name) : AllOk(f)}

\* the accessors borrow self immutably: a call leaves the Store as it is
Access(fn, id, result) ==
    /\ mode = "access"
    /\ pc = "ready"
    /\ input' = [fn |-> fn, id |-> id]
    /\ output' = result
    /\ pc' = "called"
    /\ UNCHANGED <<mode, files, step, gtfs, scanned, stop_times_index, stop_times_file,
                   ret, service_id, start_date, days>>

GetStop == \E id \in QueryIds : Access("get_stop", id, get_stop(gtfs, id))

GetTrip == \E id \in QueryIds : Access("get_trip", id, get_trip(gtfs, id))

GetRoute == \E id \in QueryIds : Access("get_route", id, get_route(gtfs, id))

GetCalendar == \E id \in QueryIds : Access("get_calendar", id, get_calendar(gtfs, id))

GetCalendarDate ==
    \E id \in QueryIds : Access("get_calendar_date", id, get_calendar_date(gtfs, id))

GetShape == \E id \in QueryIds : Access("get_shape", id, get_shape(gtfs, id))

GetFareAttributes ==
    \E id \in QueryIds : Access("get_fare_attributes", id, get_fare_attributes(gtfs, id))

\* a Store holding what the read_* methods made of files that decode
InitQuery ==
    /\ mode = "access"
    /\ files = FileNames
    /\ pc = "ready"
    /\ step = 0
    /\ \E st \in Decodable("stops"), tr \in Decodable("trips"), ro \in Decodable("routes"),
          ca \in Decodable("calendar"), cd \in Decodable("calendar_dates"),
          sh \in Decodable("shapes"), fa \in Decodable("fare_attributes") :
          LET g1 == read_stops(GtfsDefault, st).gtfs
              g2 == read_trips(g1, tr).gtfs
              g3 == read_routes(g2, ro).gtfs
              g4 == read_calendars(g3, ca).gtfs
              g5 == read_calendar_dates(g4, cd).gtfs
              g6 == read_shapes(g5, sh).gtfs
          IN  gtfs = read_fare_attributes(g6, fa).gtfs
    /\ scanned = {}
    /\ stop_times_index = "None"
    /\ stop_times_file = NotRead
    /\ ret = NoReturn
    /\ service_id = ""
    /\ start_date = 0
    /\ days = <<>>
    /\ input = NoInput
    /\ output = NoOutput

NextQuery ==
    GetStop \/ GetTrip \/ GetRoute \/ GetCalendar \/ GetCalendarDate \/ GetShape
        \/ GetFareAttributes

SpecQuery == InitQuery /\ [][NextQuery]_vars

\* the collection an accessor reads
CollectionOf(g, fn) ==
    CASE fn = "get_stop" -> g.stops
      [] fn = "get_trip" -> g.trips
      [] fn = "get_route" -> g.routes
      [] fn = "get_calendar" -> g.calendar
      [] fn = "get_calendar_date" -> g.calendar_dates
      [] fn = "get_shape" -> g.shapes
      [] fn = "get_fare_attributes" -> g.fare_attributes

\* C13: every accessor, on every Store and id, returns what its collection
\* stores under the id when the id is a key, and otherwise a ReferenceError
\* whose id is the id asked for; the call leaves the Store unchanged.
C13_AccessorsLookUpAndKeepStore ==
    [][(mode = "access" /\ pc = "ready" /\ pc' = "called") =>
        LET c == CollectionOf(gtfs, input'.fn)
        IN  /\ gtfs' = gtfs
            /\ input'.id \in DOMAIN c => output' = [tag |-> "Ok", v |-> c[input'.id]]
            /\ input'.id \notin DOMAIN c =>
                  output' = [tag |-> "Err", e |-> [kind |-> "Reference", id |-> input'.id]]
      ]_vars

\* C13 witness: get_stop("Utopia") on a Store with stops answered with a
\* ReferenceError naming "Utopia".
C13_Witness ==
    /\ mode = "access" /\ pc = "called"
    /\ input = [fn |-> "get_stop", id |-> "Utopia"]
    /\ gtfs.stops # EmptyMap
    /\ output.tag = "Err" /\ output.e.id = "Utopia"

----------------------------------------------------------------------------
(* Properties of the optional files *)

\* the bundle holds the seven mandatory files and neither optional file
OnlyMandatory == MandatoryFiles \subseteq files /\ files \cap OptionalFiles = {}

\* C14: a bundle holding every mandatory file but neither shapes nor
\* fare_attributes is loaded, by Gtfs::new and by Gtfs::from_reader alike,
\* without any error about a missing file: the load fails only on a row of
\* a file that is there (a decode or a reference error), and the Store it
\* returns otherwise has empty shapes and empty fare_attributes.
C14_OptionalFilesMayBeAbsent ==
    (OnlyMandatory /\ pc = "done") =>
        /\ ret.tag \in {"Ok", "Err"}
        /\ ret.tag = "Err" => ret.kind \in {"Decode", "Reference"}
        /\ ret.tag = "Ok" =>
              /\ ret.gtfs.shapes = EmptyMap
              /\ ret.gtfs.fare_attributes = EmptyMap

\* C14 witness: Gtfs::new returned a Store for a directory without the
\* optional files.
C14_Witness ==
    /\ mode = "new" /\ OnlyMandatory /\ pc = "done"
    /\ ret.tag = "Ok"
    /\ ret.gtfs.shapes = EmptyMap /\ ret.gtfs.fare_attributes = EmptyMap
    /\ ret.gtfs.trips # EmptyMap

----------------------------------------------------------------------------
(* The frame of read_stop_times *)

\* the collections of a Store other than trips
OtherCollections(g) ==
    <<g.stops, g.routes, g.calendar, g.calendar_dates, g.agencies, g.shapes,
      g.fare_attributes>>

\* the first n rows decode and resolve in g
Attachable(g, rows, n) ==
    \A k \in 1..n :
        /\ rows[k].ok
        /\ rows[k].v.trip_id \in DOMAIN g.trips
        /\ rows[k].v.stop_id \in DOMAIN g.stops

\* the visits the first n rows make for trip t, in the order of the rows
VisitsOf(g, rows, n, t) ==
    LET OfT(r) == r.v.trip_id = t
        mine == SelectSeq(SubSeq(rows, 1, n), OfT)
    IN  [i \in 1..Len(mine) |->
            [stop |-> g.stops[mine[i].v.stop_id], stop_sequence |-> mine[i].v.stop_sequence]]

\* b is a, reordered
Reordered(a, b) ==
    /\ Len(a) = Len(b)
    /\ \A i \in 1..Len(a) : Count(a, a[i]) = Count(b, a[i])

\* C15: a call of read_stop_times, whether it returns Ok or an error,
\* leaves stops, routes, calendar, calendar_dates, agencies, shapes and
\* fare_attributes as they were, keeps the key set of trips and every
\* trip's id, service id and route id, and changes a trip's visit list only
\* by appending the visits of the leading rows naming the trip and, when
\* every row was attached, reordering (sorting) the list.
C15_ResolverChangesOnlyVisitLists ==
    [][(~stop_times_file.read /\ stop_times_file'.read) =>
        LET rows == stop_times_file'.rows
        IN  /\ OtherCollections(gtfs') = OtherCollections(gtfs)
            /\ DOMAIN gtfs'.trips = DOMAIN gtfs.trips
            /\ \A t \in DOMAIN gtfs.trips :
                  /\ gtfs'.trips[t].id = gtfs.trips[t].id
                  /\ gtfs'.trips[t].service_id = gtfs.trips[t].service_id
                  /\ gtfs'.trips[t].route_id = gtfs.trips[t].route_id
            /\ \E n \in 0..Len(rows) :
                  /\ Attachable(gtfs, rows, n)
                  /\ \A t \in DOMAIN gtfs.trips :
                        LET before == gtfs.trips[t].stop_times
                            after == gtfs'.trips[t].stop_times
                            appended == before \o VisitsOf(gtfs, rows, n, t)
                        IN  \/ after = appended
                            \/ /\ n = Len(rows)
                               /\ Reordered(appended, after)
      ]_vars

\* C15 witness: read_stop_times failed on its second row, leaving the visit
\* of the first row attached to its trip.
C15_Witness ==
    /\ stop_times_file.read
    /\ ret.tag = "Err"
    /\ Len(Rows) = 2
    /\ Visits(gtfs) = 1

----------------------------------------------------------------------------
(* trip_days on exceptions dated far from the start date *)

\* the dates of the far exceptions: a near one, and two that are 65536 days
\* and more after the earliest start date
FarDates == {1, 65536, 65536 + MaxDate}

FarCalendarDatesFiles ==
    SeqsUpTo({OkRow(CalendarDate("service1", d, t)) : d \in FarDates, t \in ExceptionTypes},
             MaxExceptions)

\* a Store whose calendar_dates file holds far exceptions
InitFar ==
    /\ mode = "query"
    /\ files = {"calendar", "calendar_dates"}
    /\ pc = "ready"
    /\ step = 0
    /\ \E c \in CalendarFiles, e \in FarCalendarDatesFiles :
          gtfs = read_calendar_dates(read_calendars(GtfsDefault, c).gtfs, e).gtfs
    /\ scanned = {}
    /\ stop_times_index = "None"
    /\ stop_times_file = NotRead
    /\ ret = NoReturn
    /\ service_id = ""
    /\ start_date = 0
    /\ days = <<>>
    /\ input = NoInput
    /\ output = NoOutput

SpecFar == InitFar /\ [][NextDays]_vars

----------------------------------------------------------------------------
(* How often trip_days returns an offset *)

\* the number of the service's exceptions of a type dated on a date
ExceptionsOn(date, type) ==
    Cardinality({k \in 1..Len(Exceptions) :
                    Exceptions[k].date = date /\ Exceptions[k].exception_type = type})

\* the service has a calendar entry whose pattern admits the date
PatternAdmits(date) ==
    /\ HasCalendar
    /\ gtfs.calendar[service_id].start_date <= date
    /\ date <= gtfs.calendar[service_id].end_date
    /\ FlagOf(gtfs.calendar[service_id], date)

\* one if the pattern yields the day at offset d, else zero
PatternCount(d) ==
    IF PatternAdmits(start_date + d) /\ ExceptionsOn(start_date + d, 2) = 0 THEN 1 ELSE 0

\* the true offsets of the service's exceptions dated on or after the start date
ExceptionOffsets ==
    {Exceptions[k].date - start_date : k \in {j \in 1..Len(Exceptions) :
                                                Exceptions[j].date >= start_date}}

\* the number of type-1 exceptions, on or after the start date, whose true
\* offset is v modulo 65536
AdditionsReportedAs(v) ==
    Cardinality({k \in 1..Len(Exceptions) :
                    /\ Exceptions[k].exception_type = 1
                    /\ Exceptions[k].date >= start_date
                    /\ (Exceptions[k].date - start_date) % 65536 = v})

\* C16 as stated: every offset d >= 0 occurs in the list trip_days returns
\* as many times as the service has type-1 exceptions dated start_date + d,
\* plus once if the service's calendar admits start_date + d and no type-2
\* exception is dated start_date + d.
C16_CountPerOffset ==
    Called =>
        \A d \in (0..MaxDate) \cup ExceptionOffsets :
            Count(days, d) = ExceptionsOn(start_date + d, 1) + PatternCount(d)

\* C16 amended: a type-2 exception suppresses calendar-pattern days only,
\* and the offsets are counted modulo 65536: every value v occurs in the
\* list as many times as the service has type-1 exceptions dated
\* start_date + d with d >= 0 and d % 65536 = v, plus once if the calendar
\* (ending fewer than 65536 days after the start date) admits
\* start_date + v and no type-2 exception is dated start_date + v.
C16_CountPerReportedValue ==
    Called =>
        \A v \in (0..MaxDate) \cup {days[i] : i \in 1..Len(days)}
                    \cup {d % 65536 : d \in ExceptionOffsets} :
            Count(days, v) = AdditionsReportedAs(v) + PatternCount(v)

\* C16 witness: a date carrying a type-1 and a type-2 exception, and
\* admitted by the pattern, was returned exactly once.
C16_Witness ==
    /\ Called
    /\ \E d \in 0..MaxDate :
          /\ ExceptionsOn(start_date + d, 1) = 1
          /\ ExceptionsOn(start_date + d, 2) = 1
          /\ PatternAdmits(start_date + d)
          /\ Count(days, d) = 1

----------------------------------------------------------------------------
(* The width of a day offset *)

\* C17: every value trip_days returns is the true day difference between
\* an operating date and the start date, reduced modulo 65536: equal to the
\* difference when that is below 65536, and for an exception addition 65536
\* or more days after the start date a smaller value; no addition is
\* dropped, and the call returns.
C17_OffsetsAreTruncatedTo16Bits ==
    Called =>
        /\ Len(days) = Len(Additions) + Cardinality(PatternSet)
        /\ \A i \in 1..Len(days) : days[i] \in 0..65535
        /\ \A i \in 1..Len(Additions) :
              LET difference == Additions[i].date - start_date
              IN  /\ days[i] = difference % 65536
                  /\ difference < 65536 => days[i] = difference
                  /\ difference >= 65536 => days[i] < difference
        /\ \A i \in 1..Len(PatternPart) : PatternPart[i] \in PatternSet

\* C17 witness: an addition 65536 days or more after the start date was
\* reported under the difference less 65536.
C17_Witness ==
    /\ Called
    /\ \E i \in 1..Len(Additions) :
          /\ Additions[i].date - start_date > 65536
          /\ days[i] = Additions[i].date - start_date - 65536

====
